---- MODULE Spec2Model ----
(***************************************************************************)
(* Model of the NeoColmado search gateway (juniorspy/search-service):      *)
(* request validation (middleware/validator.js), the local->global         *)
(* fallback (services/searchService.js), the search and health             *)
(* controllers, the top-level error and 404 handlers, and the bootstrap,   *)
(* route mounting and shutdown of server.js.                               *)
(*                                                                         *)
(* Strings that the code inspects character by character (query, slug,     *)
(* limit, offset, index names) are sequences of one-character strings.     *)
(* JSON values of a request body are tagged records.                       *)
(***************************************************************************)
EXTENDS Integers, Sequences, FiniteSets, TLC

VARIABLES
    NODE_ENV,       \* process.env.NODE_ENV
    apiKey,         \* process.env.MEILISEARCH_API_KEY
    server,         \* the process and its HTTP server
    signals,        \* termination signals handled so far
    pc,             \* per request: position in the middleware pipeline
    req,            \* per request: method and path
    raw,            \* per request: the body as the client sent it
    body,           \* per request: req.body (sanitizers write into it)
    errors,         \* per request: validationResult(req).array()
    calls,          \* per request: engine search calls issued so far
    localOutcome,   \* per request: what the local index call settled with
    globalOutcome,  \* per request: what the global index call settled with
    healthOutcome,  \* per request: what the engine health call settled with
    outcome,        \* per request: what searchWithFallback returned or threw
    res             \* per request: the HTTP response sent

vars == <<NODE_ENV, apiKey, server, signals, pc, req, raw, body, errors, calls,
          localOutcome, globalOutcome, healthOutcome, outcome, res>>

\* the process: its environment, its server, the signals it has handled
procVars == <<NODE_ENV, apiKey, server, signals>>

(***************************************************************************)
(* Bounds                                                                  *)
(***************************************************************************)
NumReq == 1         \* requests in flight at once
MaxSlugLen == 3     \* longest slug string the validation specification draws
NumConcurrent == 2  \* requests in flight at once in the concurrency specification

\* the requests the process has room for, and those the service and the
\* shutdown specifications use
Reqs == 1..NumConcurrent
Served == 1..NumReq

None == [t |-> "none"]

(***************************************************************************)
(* JSON values of a request body                                           *)
(***************************************************************************)
Undefined == [t |-> "undefined"]
Null == [t |-> "null"]
Str(s) == [t |-> "string", s |-> s]
Num(n) == [t |-> "number", n |-> n]
\* a JSON number that is no integer, given by its String() form
Frac(s) == [t |-> "number", frac |-> s]

IsInteger(v) == v.t = "number" /\ "n" \in DOMAIN v

Lower == {"a", "b", "c", "d", "e", "f", "g", "h", "i", "j", "k", "l", "m",
          "n", "o", "p", "q", "r", "s", "t", "u", "v", "w", "x", "y", "z"}
Upper == {"A", "B", "C", "D", "E", "F", "G", "H", "I", "J", "K", "L", "M",
          "N", "O", "P", "Q", "R", "S", "T", "U", "V", "W", "X", "Y", "Z"}
Digit == {"0", "1", "2", "3", "4", "5", "6", "7", "8", "9"}
\* the characters \s matches, of those the model draws
Whitespace == {" ", "\t"}

DigitValue(c) ==
    CASE c = "0" -> 0 [] c = "1" -> 1 [] c = "2" -> 2 [] c = "3" -> 3
      [] c = "4" -> 4 [] c = "5" -> 5 [] c = "6" -> 6 [] c = "7" -> 7
      [] c = "8" -> 8 [] c = "9" -> 9

DigitChar(d) == CHOOSE c \in Digit : DigitValue(c) = d

RECURSIVE NatString(_)
\* String(n) for an integer n >= 0
NatString(n) ==
    IF n < 10 THEN <<DigitChar(n)>>
    ELSE NatString(n \div 10) \o <<DigitChar(n % 10)>>

\* express-validator's toString: '' for undefined and null, the string
\* itself, String(n) for a number
toString(v) ==
    CASE v.t = "undefined" -> <<>>
      [] v.t = "null" -> <<>>
      [] v.t = "string" -> v.s
      [] v.t = "number" ->
            IF IsInteger(v)
            THEN IF v.n < 0 THEN <<"-">> \o NatString(-v.n) ELSE NatString(v.n)
            ELSE v.frac

RECURSIVE ltrim(_)
ltrim(s) ==
    IF s # <<>> /\ Head(s) \in Whitespace THEN ltrim(Tail(s)) ELSE s

RECURSIVE rtrim(_)
rtrim(s) ==
    IF s # <<>> /\ s[Len(s)] \in Whitespace
    THEN rtrim(SubSeq(s, 1, Len(s) - 1))
    ELSE s

\* validator.js trim(str): strips /^\s+|\s+$/
trim(s) == rtrim(ltrim(s))

\* validator.js isEmpty(str)
isEmpty(s) == Len(s) = 0

RECURSIVE DigitsValue(_)
\* the value of a non-empty string of decimal digits
DigitsValue(s) ==
    IF Len(s) = 1 THEN DigitValue(s[1])
    ELSE 10 * DigitsValue(SubSeq(s, 1, Len(s) - 1)) + DigitValue(s[Len(s)])

\* /^(?:[-+]?(?:[0-9]+))$/ : validator.js isInt's pattern when leading
\* zeroes are allowed (the default)
IntPattern(s) ==
    LET u == IF s # <<>> /\ Head(s) \in {"-", "+"} THEN Tail(s) ELSE s
    IN  u # <<>> /\ \A i \in 1..Len(u) : u[i] \in Digit

NaN == [t |-> "NaN"]

\* JavaScript parseInt(String(v), 10): leading whitespace skipped, optional
\* sign, then the longest run of digits; NaN when there is none
parseIntString(s) ==
    LET t == ltrim(s)
        neg == t # <<>> /\ Head(t) = "-"
        u == IF t # <<>> /\ Head(t) \in {"-", "+"} THEN Tail(t) ELSE t
        k == IF \E i \in 1..Len(u) : u[i] \notin Digit
             THEN (CHOOSE i \in 1..Len(u) :
                       u[i] \notin Digit /\ \A j \in 1..(i - 1) : u[j] \in Digit) - 1
             ELSE Len(u)
    IN  IF k = 0 THEN NaN
        ELSE IF neg THEN -DigitsValue(SubSeq(u, 1, k))
        ELSE DigitsValue(SubSeq(u, 1, k))

parseInt(v) == parseIntString(toString(v))

(***************************************************************************)
(* middleware/validator.js                                                 *)
(***************************************************************************)
InvalidValue == "Invalid value"     \* express-validator's default message
QueryMsg == "Query is required and must be a non-empty string"
SlugRequiredMsg == "Slug is required and must be a non-empty string"
SlugPatternMsg ==
    "Slug must contain only lowercase letters, numbers, hyphens and underscores"
LimitMsg == "Limit must be an integer between 1 and 100"
OffsetMsg == "Offset must be a non-negative integer"

FieldError(path, msg) == [path |-> path, msg |-> msg]

\* .isString(): typeof value === 'string', on the value as received
isString(v) == v.t = "string"

\* the class [a-z0-9_-]
SlugClass == Lower \cup Digit \cup {"_", "-"}

\* a variant that forgets the anchors: one character of the class suffices
matchesSlugPatternUnanchored(s) == \E i \in 1..Len(s) : s[i] \in SlugClass

\* a variant whose pattern ignores case
matchesSlugPatternIgnoreCase(s) ==
    s # <<>> /\ \A i \in 1..Len(s) : s[i] \in SlugClass \cup Upper

\* .matches(/^[a-z0-9_-]+$/)
matchesSlugPattern(s) == s # <<>> /\ \A i \in 1..Len(s) : s[i] \in SlugClass

\* Number(str) of a string IntPattern accepts
IntValue(s) ==
    IF Head(s) = "-" THEN -DigitsValue(Tail(s))
    ELSE IF Head(s) = "+" THEN DigitsValue(Tail(s))
    ELSE DigitsValue(s)

\* a variant with both range tests strict
isIntStrict(s, options) ==
    /\ IntPattern(s)
    /\ ("min" \in DOMAIN options => IntValue(s) > options.min)
    /\ ("max" \in DOMAIN options => IntValue(s) < options.max)

\* validator.js isInt(str, options): the pattern, then the range tests for
\* the options given
isInt(s, options) ==
    /\ IntPattern(s)
    /\ ("min" \in DOMAIN options => IntValue(s) >= options.min)
    /\ ("max" \in DOMAIN options => IntValue(s) <= options.max)

LimitMin == 1
LimitMax == 100
OffsetMin == 0

\* Each chain yields the field's value after its sanitizers and the errors
\* its validators added, in the order of the chain.

\* body('query').isString().trim().notEmpty().withMessage(..)
queryChain(v) ==
    LET e1 == IF isString(v) THEN <<>> ELSE <<FieldError("query", InvalidValue)>>
        v1 == Str(trim(toString(v)))
        e2 == IF isEmpty(toString(v1)) THEN <<FieldError("query", QueryMsg)>> ELSE <<>>
    IN  [value |-> v1, errors |-> e1 \o e2]

\* body('slug').isString().trim().notEmpty().withMessage(..).matches(..).withMessage(..)
slugChain(v) ==
    LET e1 == IF isString(v) THEN <<>> ELSE <<FieldError("slug", InvalidValue)>>
        v1 == Str(trim(toString(v)))
        e2 == IF isEmpty(toString(v1))
              THEN <<FieldError("slug", SlugRequiredMsg)>> ELSE <<>>
        e3 == IF matchesSlugPattern(toString(v1))
              THEN <<>> ELSE <<FieldError("slug", SlugPatternMsg)>>
    IN  [value |-> v1, errors |-> e1 \o e2 \o e3]

\* body('limit').optional().isInt({ min: 1, max: 100 }).withMessage(..)
limitChain(v) ==
    [value |-> v,
     errors |-> IF v = Undefined \/ isInt(toString(v), [min |-> LimitMin, max |-> LimitMax])
                THEN <<>> ELSE <<FieldError("limit", LimitMsg)>>]

\* body('offset').optional().isInt({ min: 0 }).withMessage(..)
offsetChain(v) ==
    [value |-> v,
     errors |-> IF v = Undefined \/ isInt(toString(v), [min |-> OffsetMin])
                THEN <<>> ELSE <<FieldError("offset", OffsetMsg)>>]

\* a variant that stops at the first chain that reports a violation
searchValidationRulesFirstOnly(b) ==
    LET q == queryChain(b.query)
        s == slugChain(b.slug)
        l == limitChain(b.limit)
        o == offsetChain(b.offset)
    IN  [body |-> [query |-> q.value, slug |-> s.value,
                   limit |-> l.value, offset |-> o.value],
         errors |-> IF q.errors # <<>> THEN q.errors
                    ELSE IF s.errors # <<>> THEN s.errors
                    ELSE IF l.errors # <<>> THEN l.errors
                    ELSE o.errors]

\* searchValidationRules(): the four chains run in order; what they leave
\* in req.body and in the request's validation result
searchValidationRules(b) ==
    LET q == queryChain(b.query)
        s == slugChain(b.slug)
        l == limitChain(b.limit)
        o == offsetChain(b.offset)
    IN  [body |-> [query |-> q.value, slug |-> s.value,
                   limit |-> l.value, offset |-> o.value],
         errors |-> q.errors \o s.errors \o l.errors \o o.errors]

\* a variant that lets a request with a single violation through
errorsIsEmptyLenient(errs) == Len(errs) <= 1

\* validate: errors.isEmpty()
errorsIsEmpty(errs) == Len(errs) = 0

\* a variant without the return: next() is called after the 400 too
validateNextAlways(errs) == TRUE

\* validate: whether next() is reached: the 400 branch returns
validateNext(errs) == errorsIsEmpty(errs)

\* validate: the 400 response
ValidationResponse(errs) ==
    [status |-> 400,
     body |-> [success |-> FALSE,
               errors |-> [i \in 1..Len(errs) |->
                              [field |-> errs[i].path, message |-> errs[i].msg]]]]

(***************************************************************************)
(* The search engine, as the service sees it: a call settles with a        *)
(* response or with an error object.                                       *)
(***************************************************************************)
\* a search response that reports estimatedTotalHits
Found(hits, est, ms) ==
    [t |-> "ok", hits |-> hits, estimatedTotalHits |-> est, processingTimeMs |-> ms]
\* a search response without the field
FoundNoEstimate(hits, ms) ==
    [t |-> "ok", hits |-> hits, processingTimeMs |-> ms]

\* the engine answered 404 index_not_found
IndexNotFound ==
    [t |-> "error", name |-> "MeiliSearchApiError",
     message |-> "Index not found.", stack |-> "MeiliSearchApiError: Index not found. at", httpStatus |-> 404]
\* the client's timeout (REQUEST_TIMEOUT) expired
TimedOut ==
    [t |-> "error", name |-> "MeiliSearchTimeOutError",
     message |-> "timeout has exceeded", stack |-> "MeiliSearchTimeOutError: timeout has exceeded at"]
\* a gateway in front of the engine answered with a non-JSON error page:
\* the client's error carries the HTTP status as statusCode
BadGateway ==
    [t |-> "error", name |-> "MeiliSearchCommunicationError",
     message |-> "Bad Gateway", stack |-> "MeiliSearchCommunicationError: Bad Gateway at", statusCode |-> 502]

EngineErrors == {IndexNotFound, TimedOut, BadGateway}

Responses ==
    {FoundNoEstimate(<<>>, 0), Found(<<>>, 0, 1), Found(<<>>, 2, 1),
     FoundNoEstimate(<<"h1">>, 2), Found(<<"h2", "h1">>, 7, 12)}

EngineOutcomes == Responses \cup EngineErrors

\* what a search call can settle with: any error, or a response that is a
\* page of the matches: no more hits than the limit, none when the offset
\* is at or past the estimated total, and some when it is before it
OutcomesFor(call) ==
    {o \in EngineOutcomes :
        o.t = "ok" =>
            /\ Len(o.hits) <= call.limit
            /\ "estimatedTotalHits" \in DOMAIN o =>
                   /\ Len(o.hits) > 0 <=> o.estimatedTotalHits > call.offset
                   /\ Len(o.hits) > 0 => Len(o.hits) + call.offset <= o.estimatedTotalHits}

(***************************************************************************)
(* services/searchService.js                                               *)
(***************************************************************************)
GLOBAL_INDEX == <<"colmado_inventory">>
LOCAL_INDEX_PREFIX == <<"productos_colmado_">>

\* a variant that leaves the prefix out
localIndexNameBare(slug) == slug

\* const localIndexName = `${LOCAL_INDEX_PREFIX}${slug}`
localIndexName(slug) == LOCAL_INDEX_PREFIX \o slug

\* index(name).search(query, { limit, offset })
SearchCall(name, query, limit, offset) ==
    [index |-> name, query |-> query, limit |-> limit, offset |-> offset]

\* a variant that also takes a response that estimates matches for a hit
hasHitsOrEstimate(r) ==
    \/ Len(r.hits) > 0
    \/ "estimatedTotalHits" \in DOMAIN r /\ r.estimatedTotalHits > 0

\* a variant that takes any successful response for a hit
hasHitsAlways(r) == TRUE

\* localResults.hits && localResults.hits.length > 0
hasHits(r) == Len(r.hits) > 0

\* a variant that counts the returned hits whatever the engine estimates
totalHitsLength(r) == Len(r.hits)

\* r.estimatedTotalHits || r.hits.length
total(r) ==
    IF "estimatedTotalHits" \in DOMAIN r /\ r.estimatedTotalHits # 0
    THEN r.estimatedTotalHits
    ELSE Len(r.hits)

RECURSIVE Reverse(_)
\* the sequence in the opposite order
Reverse(q) == IF q = <<>> THEN <<>> ELSE Append(Reverse(Tail(q)), Head(q))

\* a variant that re-ranks the local hits
LocalResultReranked(name, r, query, limit, offset) ==
    [source |-> "local", indexName |-> name, hits |-> Reverse(r.hits),
     total |-> total(r), query |-> query, limit |-> limit, offset |-> offset,
     processingTimeMs |-> r.processingTimeMs]

\* the object returned from the local branch
LocalResult(name, r, query, limit, offset) ==
    [source |-> "local", indexName |-> name, hits |-> r.hits, total |-> total(r),
     query |-> query, limit |-> limit, offset |-> offset,
     processingTimeMs |-> r.processingTimeMs]

\* a variant that labels the global result as a local one
GlobalResultLabelledLocal(r, query, limit, offset) ==
    [source |-> "local", indexName |-> GLOBAL_INDEX, hits |-> r.hits,
     total |-> total(r), query |-> query, limit |-> limit, offset |-> offset,
     processingTimeMs |-> r.processingTimeMs]

\* the object returned from the global branch
GlobalResult(r, query, limit, offset) ==
    [source |-> "global", indexName |-> GLOBAL_INDEX, hits |-> r.hits,
     total |-> total(r), query |-> query, limit |-> limit, offset |-> offset,
     processingTimeMs |-> r.processingTimeMs]

\* a variant that lets through the errors that carry an HTTP status
localCatchesUnlessStatus(err) == "statusCode" \notin DOMAIN err

\* a variant that absorbs a missing index only
localCatchesNotFoundOnly(err) == err.name = "MeiliSearchApiError"

\* catch (localError) { logger.warn(..) }: whether the inner handler absorbs
\* the error; it has no condition and rethrows nothing
localCatches(err) == TRUE

\* a variant that wraps the error in a new one
outerCatchWraps(err) ==
    [t |-> "error", name |-> "Error", message |-> "Search failed",
     stack |-> "Error: Search failed at"]

\* catch (error) { logger.error(..); throw error; }: what the outer handler throws
outerCatch(err) == err

Returned(v) == [t |-> "returned", value |-> v]
Thrown(e) == [t |-> "thrown", error |-> e]

(***************************************************************************)
(* controllers/searchController.js                                         *)
(***************************************************************************)
DefaultLimit == 20
DefaultOffset == 0

\* a variant that passes offset for limit and limit for offset
searchArgsSwapped(b) ==
    [query |-> toString(b.query),
     slug |-> toString(b.slug),
     limit |-> parseInt(IF b.offset = Undefined THEN Num(DefaultOffset) ELSE b.offset),
     offset |-> parseInt(IF b.limit = Undefined THEN Num(DefaultLimit) ELSE b.limit)]

\* const { query, slug, limit = 20, offset = 0 } = req.body, then
\* parseInt(limit), parseInt(offset): the arguments of searchWithFallback
searchArgs(b) ==
    [query |-> toString(b.query),
     slug |-> toString(b.slug),
     limit |-> parseInt(IF b.limit = Undefined THEN Num(DefaultLimit) ELSE b.limit),
     offset |-> parseInt(IF b.offset = Undefined THEN Num(DefaultOffset) ELSE b.offset)]

\* res.json({ success: true, data: result })
SuccessResponse(result) ==
    [status |-> 200, body |-> [success |-> TRUE, data |-> result]]

(***************************************************************************)
(* middleware/errorHandler.js                                              *)
(***************************************************************************)
GenericMessage == "Internal server error"

\* a variant that answers 500 whatever the error carries
statusCodeAlways500(err) == 500

\* const statusCode = err.statusCode || err.status || 500
statusCode(err) ==
    IF "statusCode" \in DOMAIN err /\ err.statusCode # 0 THEN err.statusCode
    ELSE IF "status" \in DOMAIN err /\ err.status # 0 THEN err.status
    ELSE 500

\* a variant that sends the error's own message in every environment
errorBodyLeaky(err, env) == [message |-> err.message]

\* the error object of the response: the generic message in production,
\* the error's message and stack otherwise
errorBody(err, env) ==
    IF env = "production"
    THEN [message |-> GenericMessage]
    ELSE [message |-> err.message, stack |-> err.stack]

\* errorHandler(err, req, res, next)
errorHandler(err, env) ==
    [status |-> statusCode(err),
     body |-> [success |-> FALSE, error |-> errorBody(err, env)]]

(***************************************************************************)
(* Request bodies                                                          *)
(***************************************************************************)
RECURSIVE Strings(_, _)
\* the strings over an alphabet, up to a length
Strings(alphabet, n) ==
    IF n = 0 THEN {<<>>}
    ELSE LET shorter == Strings(alphabet, n - 1)
         IN  shorter \cup {Append(s, c) : s \in shorter, c \in alphabet}

Body(query, slug, limit, offset) ==
    [query |-> query, slug |-> slug, limit |-> limit, offset |-> offset]

NoBody == Body(Undefined, Undefined, Undefined, Undefined)

\* the bodies the requests of the service specification carry
Bodies ==
    {Body(q, s, p[1], p[2]) :
        q \in {Str(<<"q">>), Str(<<" ">>)},
        s \in {Undefined, Str(<<"a">>), Str(<<" ", "b", " ">>)},
        p \in {<<Undefined, Undefined>>, <<Str(<<"5">>), Num(3)>>}}

SlugAlphabet == {"a", "9", "_", "-", "A", " ", "!"}

SlugValues ==
    {Undefined, Null, Num(7)} \cup {Str(s) : s \in Strings(SlugAlphabet, MaxSlugLen)}

QueryValues ==
    {Undefined, Null, Num(5)} \cup {Str(s) : s \in Strings({"q", " ", "\t"}, 2)}

LimitValues ==
    {Undefined, Null, Num(-1), Num(0), Num(1), Num(50), Num(100), Num(101),
     Frac(<<"1", ".", "5">>), Str(<<>>), Str(<<"1">>), Str(<<"0">>),
     Str(<<"1", "0", "0">>), Str(<<"1", "0", "1">>), Str(<<"+", "7">>),
     Str(<<"0", "0", "7">>), Str(<<"a", "b", "c">>), Str(<<"1", ".", "0">>),
     Str(<<" ", "5">>)}

OffsetValues ==
    {Undefined, Null, Num(-1), Num(0), Num(1), Num(1000),
     Frac(<<"0", ".", "5">>), Str(<<"0">>), Str(<<"-", "1">>),
     Str(<<"1", "2">>), Str(<<"x">>)}

\* the bodies the validation specification draws: every slug against a few
\* queries, and every query, limit and offset against a few slugs
ValidationBodies ==
    {Body(q, s, Undefined, Undefined) :
        q \in {Str(<<"a", "r", "r", "o", "z">>), Str(<<>>)}, s \in SlugValues}
    \cup
    {Body(q, s, l, o) :
        q \in QueryValues, s \in {Undefined, Str(<<"a">>)},
        l \in LimitValues, o \in OffsetValues}

(***************************************************************************)
(* controllers/searchController.js and services/searchService.js: health   *)
(***************************************************************************)
\* meilisearchClient.health()
HealthCall == [health |-> TRUE]

\* the call resolved with undefined: the client does so for an answer 2xx
\* whose body is not JSON
NoValue == [t |-> "empty"]

\* what the engine health call settles with: a health object, no value, or
\* an error
HealthOutcomes ==
    {[t |-> "ok", value |-> [status |-> "available"]],
     [t |-> "ok", value |-> [status |-> "maintenance"]], NoValue,
     TimedOut, BadGateway}

\* the TypeError of reading health.status of undefined
NoStatusMessage == "Cannot read properties of undefined (reading 'status')"

\* a variant that keeps the first outcome it sees and answers from it
healthCheckCached(o) ==
    LET seen == {q \in Reqs : healthOutcome[q] # None}
        c == IF seen = {} THEN o
             ELSE healthOutcome[CHOOSE q \in seen : \A p \in seen : q <= p]
    IN  IF c.t = "ok"
        THEN [status |-> "healthy", meilisearch |-> c.value]
        ELSE [status |-> "unhealthy",
              error |-> IF c.t = "empty" THEN NoStatusMessage ELSE c.message]

\* a variant that looks at the status the engine reports
healthCheckStrict(o) ==
    IF o.t = "ok" /\ o.value.status = "available"
    THEN [status |-> "healthy", meilisearch |-> o.value]
    ELSE [status |-> "unhealthy",
          error |-> IF o.t = "ok" THEN o.value.status
                    ELSE IF o.t = "empty" THEN NoStatusMessage ELSE o.message]

\* healthCheck(): never throws; the engine's object on success, the error's
\* message otherwise; logger.debug(.., { status: health.status }) inside the
\* try throws a TypeError when the call resolved with no value
healthCheck(o) ==
    IF o.t = "ok"
    THEN [status |-> "healthy", meilisearch |-> o.value]
    ELSE IF o.t = "empty"
    THEN [status |-> "unhealthy", error |-> NoStatusMessage]
    ELSE [status |-> "unhealthy", error |-> o.message]

\* a variant that answers 200 whatever the status
healthStatusCodeAlways200(hs) == 200

\* const statusCode = healthStatus.status === 'healthy' ? 200 : 503
healthStatusCode(hs) == IF hs.status = "healthy" THEN 200 ELSE 503

\* new Date().toISOString(): the clock is not modelled
Timestamp == "timestamp"

\* health(req, res): { success, service, timestamp, ...healthStatus }
HealthResponse(hs) ==
    [status |-> healthStatusCode(hs),
     body |-> hs @@ [success |-> hs.status = "healthy",
                     service |-> "search-service",
                     timestamp |-> Timestamp]]

(***************************************************************************)
(* server.js: middleware, routes and handlers, in the order they are       *)
(* mounted.  A path is the sequence of its segments.                       *)
(***************************************************************************)
\* a request: its method, its path, whether express.json() can parse its
\* body, and the body parsed
Request(method, path, b) ==
    [method |-> method, path |-> path, parsed |-> TRUE, body |-> b]

\* a request whose body is declared as JSON and is not JSON
MalformedRequest(method, path) ==
    [method |-> method, path |-> path, parsed |-> FALSE, body |-> NoBody]

NoRequest == [method |-> "none", path |-> <<>>, parsed |-> TRUE]

\* what express.json() hands to next() for such a body: body-parser's error
\* carries the status 400
ParseError ==
    [t |-> "error", message |-> "Unexpected token", stack |-> "stack",
     statusCode |-> 400, status |-> 400]

IsPrefix(p, path) == Len(p) <= Len(path) /\ SubSeq(path, 1, Len(p)) = p

\* Express answers HEAD with the GET handler of the path
HandlesGet(method) == method \in {"GET", "HEAD"}

\* routes/index.js: the handler of the router for a path below its mount
\* point, or "next" when no route of the router matches
router(method, sub) ==
    IF method = "POST" /\ sub = <<"search">> THEN "search"
    ELSE IF HandlesGet(method) /\ sub = <<"health">> THEN "health"
    ELSE "next"

\* a variant in which the router matches the whole path of the request
mountedWholePath(mount, method, path) ==
    IF IsPrefix(mount, path) THEN router(method, path) ELSE "next"

\* app.use(mount, routes): the router sees the path with the mount point
\* stripped
mounted(mount, method, path) ==
    IF IsPrefix(mount, path)
    THEN router(method, SubSeq(path, Len(mount) + 1, Len(path)))
    ELSE "next"

\* a variant that sends every POST no route matches to the search handler
dispatchPostToSearch(method, path) ==
    IF HandlesGet(method) /\ path = <<>> THEN "root"
    ELSE IF mounted(<<"api", "v1">>, method, path) # "next"
    THEN mounted(<<"api", "v1">>, method, path)
    ELSE IF mounted(<<"health">>, method, path) # "next"
    THEN mounted(<<"health">>, method, path)
    ELSE IF method = "POST" THEN "search"
    ELSE "notFound"

\* the route that answers a request: app.get('/'), the router under
\* /api/v1, the router under /health, and the 404 handler
dispatch(method, path) ==
    IF HandlesGet(method) /\ path = <<>> THEN "root"
    ELSE IF mounted(<<"api", "v1">>, method, path) # "next"
    THEN mounted(<<"api", "v1">>, method, path)
    ELSE IF mounted(<<"health">>, method, path) # "next"
    THEN mounted(<<"health">>, method, path)
    ELSE "notFound"

\* the middleware before the routes: cors() ends every OPTIONS request, then
\* express.json() fails on a body it cannot parse
handler(q) ==
    IF q.method = "OPTIONS" THEN "preflight"
    ELSE IF ~q.parsed THEN "parseError"
    ELSE dispatch(q.method, q.path)

\* cors(): the preflight answer
PreflightResponse == [status |-> 204, body |-> None]

\* app.get('/', ..): the service banner
RootResponse ==
    [status |-> 200,
     body |-> [service |-> "NeoColmado Search Gateway", version |-> "1.0.0",
               status |-> "running",
               endpoints |-> [search |-> "POST /api/v1/search",
                              health |-> "GET /health"]]]

\* notFoundHandler(req, res)
notFoundHandler(path) ==
    [status |-> 404,
     body |-> [success |-> FALSE,
               error |-> [message |-> "Route not found", path |-> path]]]

Methods == {"GET", "HEAD", "POST", "OPTIONS", "DELETE"}

Paths ==
    {<<>>, <<"health">>, <<"api", "v1", "health">>, <<"health", "health">>,
     <<"api", "v1", "search">>, <<"health", "search">>, <<"search">>,
     <<"api", "v1">>, <<"nope">>}

\* the requests of the service specification: searches with the bodies
\* above, a search through the /health mount, and every method on every path
\* without a body
Requests ==
    {Request("POST", <<"api", "v1", "search">>, b) : b \in Bodies}
    \cup {Request("POST", <<"health", "search">>, b) :
             b \in {Body(Str(<<" ", "q">>), Str(<<"a">>), Undefined, Undefined)}}
    \cup {Request(m, p, NoBody) : m \in Methods, p \in Paths}
    \cup {MalformedRequest(m, p) :
             m \in {"POST", "OPTIONS"},
             p \in {<<"api", "v1", "search">>, <<"nope">>}}

(***************************************************************************)
(* config/meilisearch.js and server.js: bootstrap and shutdown             *)
(***************************************************************************)
\* a variant that logs the missing key and goes on
apiKeyMissingIgnored(k) == FALSE

\* if (!apiKey): undefined and '' are falsy
apiKeyMissing(k) == k = Undefined \/ k = Str(<<>>)

ApiKeys == {Undefined, Str(<<>>), Str(<<"k">>)}

\* a variant that exits as soon as the signal is handled
drainedAlways(p) == TRUE

\* server.close(callback): the callback runs once no connection is left,
\* that is once every accepted request has been answered
drained(p) == \A r \in Reqs : p[r] \in {"idle", "done"}

MaxSignals == 2     \* termination signals delivered

(***************************************************************************)
(* The process and the pipeline of a request                               *)
(***************************************************************************)
TypeOK ==
    /\ NODE_ENV \in {"production", "development"}
    /\ apiKey \in ApiKeys
    /\ server \in {"starting", "crashed", "listening", "closing", "exited"}
    /\ signals \in 0..MaxSignals
    /\ pc \in [Reqs -> {"idle", "received", "controller", "awaitLocal",
                        "awaitGlobal", "awaitHealth", "done"}]

Quiet ==
    /\ body = [r \in Reqs |-> NoBody]
    /\ errors = [r \in Reqs |-> <<>>]
    /\ calls = [r \in Reqs |-> <<>>]
    /\ localOutcome = [r \in Reqs |-> None]
    /\ globalOutcome = [r \in Reqs |-> None]
    /\ healthOutcome = [r \in Reqs |-> None]
    /\ outcome = [r \in Reqs |-> None]
    /\ res = [r \in Reqs |-> None]

\* node src/server.js has been started
Init ==
    /\ NODE_ENV \in {"production", "development"}
    /\ apiKey \in ApiKeys
    /\ server = "starting"
    /\ signals = 0
    /\ pc = [r \in Reqs |-> "idle"]
    /\ req = [r \in Reqs |-> NoRequest]
    /\ raw = [r \in Reqs |-> NoBody]
    /\ Quiet

\* server.js is loaded: requiring the routes loads config/meilisearch.js,
\* which throws without a key, before app.listen() is reached
Boot ==
    /\ server = "starting"
    /\ server' = IF apiKeyMissing(apiKey) THEN "crashed" ELSE "listening"
    /\ UNCHANGED <<NODE_ENV, apiKey, signals, pc, req, raw, body, errors, calls,
                   localOutcome, globalOutcome, healthOutcome, outcome, res>>

\* a request of the set is accepted and goes through cors(), express.json()
\* and the routes up to its handler's first await: the root, 404, preflight
\* and parse error answers are sent at once, health issues the engine health
\* call, search enters its validation chains
ReceiveFrom(r, requests) ==
    /\ server = "listening"
    /\ pc[r] = "idle"
    /\ \E rq \in requests :
          LET h == handler(rq)
          IN  /\ req' = [req EXCEPT ![r] = [method |-> rq.method, path |-> rq.path,
                                            parsed |-> rq.parsed]]
              /\ raw' = [raw EXCEPT ![r] = rq.body]
              /\ body' = [body EXCEPT ![r] = rq.body]
              /\ pc' = [pc EXCEPT ![r] =
                           CASE h = "search" -> "received"
                             [] h = "health" -> "awaitHealth"
                             [] OTHER -> "done"]
              /\ calls' = [calls EXCEPT ![r] =
                              IF h = "health" THEN <<HealthCall>> ELSE <<>>]
              /\ res' = [res EXCEPT ![r] =
                            CASE h = "root" -> RootResponse
                              [] h = "preflight" -> PreflightResponse
                              [] h = "notFound" -> notFoundHandler(rq.path)
                              [] h = "parseError" -> errorHandler(ParseError, NODE_ENV)
                              [] OTHER -> None]
    /\ UNCHANGED <<procVars, errors, localOutcome, globalOutcome, healthOutcome, outcome>>

Receive(r) == ReceiveFrom(r, Requests)

\* router.post('/search', searchValidationRules(), validate, ..): the chains
\* run, then validate answers 400 or calls next()
Validate(r) ==
    /\ pc[r] = "received"
    /\ LET v == searchValidationRules(body[r])
       IN  /\ body' = [body EXCEPT ![r] = v.body]
           /\ errors' = [errors EXCEPT ![r] = v.errors]
           /\ res' = IF errorsIsEmpty(v.errors) THEN res
                      ELSE [res EXCEPT ![r] = ValidationResponse(v.errors)]
           /\ pc' = [pc EXCEPT ![r] =
                        IF validateNext(v.errors) THEN "controller" ELSE "done"]
    /\ UNCHANGED <<procVars, req, raw, calls, localOutcome, globalOutcome,
                   healthOutcome, outcome>>

\* a variant that keeps the arguments in a variable of the module, which
\* holds those of the earliest request that reached the controller
requestArgsShared(r) ==
    searchArgs(body[CHOOSE q \in Reqs :
                       /\ pc[q] \notin {"idle", "received"}
                       /\ \A p \in Reqs : pc[p] \notin {"idle", "received"} => q <= p])

\* query, slug, limit, offset: locals of the request's own invocation of
\* search and searchWithFallback
requestArgs(r) == searchArgs(body[r])

\* a variant that queries both indexes at once
firstCallsBoth(a) ==
    <<SearchCall(localIndexName(a.slug), a.query, a.limit, a.offset),
      SearchCall(GLOBAL_INDEX, a.query, a.limit, a.offset)>>

\* searchWithFallback up to its first await: the calls in flight then
firstCalls(a) ==
    <<SearchCall(localIndexName(a.slug), a.query, a.limit, a.offset)>>

\* search(req, res, next) up to the first await of searchWithFallback: the
\* local index is queried
SearchStart(r) ==
    /\ pc[r] = "controller"
    /\ calls' = [calls EXCEPT ![r] = firstCalls(requestArgs(r))]
    /\ pc' = [pc EXCEPT ![r] = "awaitLocal"]
    /\ UNCHANGED <<procVars, req, raw, body, errors, localOutcome, globalOutcome,
                   healthOutcome, outcome, res>>

\* the request is over: searchWithFallback returned a result, the controller
\* sent it
Succeed(r, result) ==
    /\ outcome' = [outcome EXCEPT ![r] = Returned(result)]
    /\ res' = [res EXCEPT ![r] = SuccessResponse(result)]
    /\ pc' = [pc EXCEPT ![r] = "done"]

\* the request is over: searchWithFallback threw, the controller handed the
\* error to next(), the error handler answered
Fail(r, err) ==
    /\ outcome' = [outcome EXCEPT ![r] = Thrown(err)]
    /\ res' = [res EXCEPT ![r] = errorHandler(err, NODE_ENV)]
    /\ pc' = [pc EXCEPT ![r] = "done"]

\* the local call settles: a result with hits is returned; otherwise (no
\* hits, or an error the inner handler absorbs) the global index is queried
LocalSettles(r) ==
    /\ pc[r] = "awaitLocal"
    /\ \E o \in OutcomesFor(calls[r][1]) :
          LET a == requestArgs(r)
          IN  /\ localOutcome' = [localOutcome EXCEPT ![r] = o]
              /\ IF o.t = "ok" /\ hasHits(o)
                 THEN /\ Succeed(r, LocalResult(localIndexName(a.slug), o,
                                                a.query, a.limit, a.offset))
                      /\ calls' = calls
                 ELSE IF o.t = "error" /\ ~localCatches(o)
                 THEN /\ Fail(r, outerCatch(o))
                      /\ calls' = calls
                 ELSE /\ calls' = [calls EXCEPT ![r] =
                             Append(@, SearchCall(GLOBAL_INDEX, a.query, a.limit, a.offset))]
                      /\ pc' = [pc EXCEPT ![r] = "awaitGlobal"]
                      /\ UNCHANGED <<outcome, res>>
    /\ UNCHANGED <<procVars, req, raw, body, errors, globalOutcome, healthOutcome>>

\* the global call settles: its result is returned, or its error goes
\* through the outer handler to the caller
GlobalSettles(r) ==
    /\ pc[r] = "awaitGlobal"
    /\ \E o \in OutcomesFor(calls[r][Len(calls[r])]) :
          LET a == requestArgs(r)
          IN  /\ globalOutcome' = [globalOutcome EXCEPT ![r] = o]
              /\ IF o.t = "ok"
                 THEN Succeed(r, GlobalResult(o, a.query, a.limit, a.offset))
                 ELSE Fail(r, outerCatch(o))
    /\ UNCHANGED <<procVars, req, raw, body, errors, calls, localOutcome, healthOutcome>>

\* the engine health call settles: health(req, res) answers 200 or 503
HealthSettles(r) ==
    /\ pc[r] = "awaitHealth"
    /\ \E o \in HealthOutcomes :
          /\ healthOutcome' = [healthOutcome EXCEPT ![r] = o]
          /\ res' = [res EXCEPT ![r] = HealthResponse(healthCheck(o))]
    /\ pc' = [pc EXCEPT ![r] = "done"]
    /\ UNCHANGED <<procVars, req, raw, body, errors, calls, localOutcome,
                   globalOutcome, outcome>>

Next ==
    \/ Boot
    \/ \E r \in Served : Receive(r)
    \/ \E r \in Served : Validate(r)
    \/ \E r \in Served : SearchStart(r)
    \/ \E r \in Served : LocalSettles(r)
    \/ \E r \in Served : GlobalSettles(r)
    \/ \E r \in Served : HealthSettles(r)

Spec == Init /\ [][Next]_vars

(***************************************************************************)
(* Validation: one search request with a body drawn from ValidationBodies  *)
(* goes through the chains and validate, and on through the search when    *)
(* it is let through.                                                      *)
(***************************************************************************)
InitValidation ==
    /\ NODE_ENV = "production"
    /\ apiKey = Str(<<"k">>)
    /\ server = "listening"
    /\ signals = 0
    /\ pc = [r \in Reqs |-> IF r = 1 THEN "received" ELSE "idle"]
    /\ req = [r \in Reqs |-> IF r = 1
                             THEN [method |-> "POST", path |-> <<"api", "v1", "search">>,
                                   parsed |-> TRUE]
                             ELSE NoRequest]
    /\ \E b \in ValidationBodies :
          /\ raw = [r \in Reqs |-> IF r = 1 THEN b ELSE NoBody]
          /\ body = raw
    /\ errors = [r \in Reqs |-> <<>>]
    /\ calls = [r \in Reqs |-> <<>>]
    /\ localOutcome = [r \in Reqs |-> None]
    /\ globalOutcome = [r \in Reqs |-> None]
    /\ healthOutcome = [r \in Reqs |-> None]
    /\ outcome = [r \in Reqs |-> None]
    /\ res = [r \in Reqs |-> None]

NextValidation ==
    \/ \E r \in Served : Validate(r)
    \/ \E r \in Served : SearchStart(r)
    \/ \E r \in Served : LocalSettles(r)
    \/ \E r \in Served : GlobalSettles(r)

SpecValidation == InitValidation /\ [][NextValidation]_vars

(***************************************************************************)
(* Concurrency: the listening server handles several requests at once,     *)
(* each a search of its own or a health probe.                             *)
(***************************************************************************)
\* the requests the slot can carry: the searches differ from slot to slot,
\* and every third slot carries health probes only
ConcurrentRequests(r) ==
    {Request("GET", <<"api", "v1", "health">>, NoBody)}
    \cup CASE r % 3 = 1 ->
                  {Request("POST", <<"api", "v1", "search">>,
                           Body(Str(<<"q">>), Str(<<"a">>), Undefined, Undefined))}
           [] r % 3 = 2 ->
                  {Request("POST", <<"api", "v1", "search">>,
                           Body(Str(<<"p">>), Str(<<"b">>), Str(<<"5">>), Num(3)))}
           [] OTHER -> {}

InitConcurrent ==
    /\ NODE_ENV = "production"
    /\ apiKey = Str(<<"k">>)
    /\ server = "listening"
    /\ signals = 0
    /\ pc = [r \in Reqs |-> "idle"]
    /\ req = [r \in Reqs |-> NoRequest]
    /\ raw = [r \in Reqs |-> NoBody]
    /\ Quiet

NextConcurrent ==
    \/ \E r \in Reqs : ReceiveFrom(r, ConcurrentRequests(r))
    \/ \E r \in Reqs : Validate(r)
    \/ \E r \in Reqs : SearchStart(r)
    \/ \E r \in Reqs : LocalSettles(r)
    \/ \E r \in Reqs : GlobalSettles(r)
    \/ \E r \in Reqs : HealthSettles(r)

SpecConcurrent == InitConcurrent /\ [][NextConcurrent]_vars

(***************************************************************************)
(* Shutdown: the process with termination signals, serving a few requests. *)
(***************************************************************************)
\* the requests of the shutdown specification
ShutdownRequests ==
    {Request("GET", <<>>, NoBody),
     Request("GET", <<"nope">>, NoBody),
     Request("GET", <<"api", "v1", "health">>, NoBody),
     Request("POST", <<"api", "v1", "search">>, NoBody),
     Request("POST", <<"api", "v1", "search">>,
             Body(Str(<<"q">>), Str(<<"a">>), Undefined, Undefined))}

\* process.on('SIGTERM' | 'SIGINT', ..): server.close(callback); the server
\* stops accepting connections, and a later signal registers one more
\* callback on the closing server
Signal ==
    /\ server \in {"listening", "closing"}
    /\ signals < MaxSignals
    /\ server' = "closing"
    /\ signals' = signals + 1
    /\ UNCHANGED <<NODE_ENV, apiKey, pc, req, raw, body, errors, calls,
                   localOutcome, globalOutcome, healthOutcome, outcome, res>>

\* the close callback: process.exit(0)
Exit ==
    /\ server = "closing"
    /\ drained(pc)
    /\ server' = "exited"
    /\ UNCHANGED <<NODE_ENV, apiKey, signals, pc, req, raw, body, errors, calls,
                   localOutcome, globalOutcome, healthOutcome, outcome, res>>

NextShutdown ==
    \/ Boot
    \/ Signal
    \/ Exit
    \/ \E r \in Served : ReceiveFrom(r, ShutdownRequests)
    \/ \E r \in Served : Validate(r)
    \/ \E r \in Served : SearchStart(r)
    \/ \E r \in Served : LocalSettles(r)
    \/ \E r \in Served : GlobalSettles(r)
    \/ \E r \in Served : HealthSettles(r)

\* a request in flight takes its next step
Progress ==
    \E r \in Served :
        \/ Validate(r)
        \/ SearchStart(r)
        \/ LocalSettles(r)
        \/ GlobalSettles(r)
        \/ HealthSettles(r)

\* the request is between its arrival and its response
InFlight(r) ==
    pc[r] \in {"received", "controller", "awaitLocal", "awaitGlobal", "awaitHealth"}

\* a request in flight always has a next step: Progress is enabled
Busy == \E r \in Served : InFlight(r)

\* a step of Progress seen on the two states: a request in flight moved on
Stepped == \E r \in Served : InFlight(r) /\ pc'[r] # pc[r]

\* Busy is the enabling condition of Progress, and Stepped its steps
ProgressEnabled == Busy <=> ENABLED <<Progress>>_vars
ProgressSteps == [][Stepped <=> Progress]_vars

\* the event loop runs the close callback once it is ready, and the
\* middleware and continuations of the requests in flight: every engine
\* call settles, the client's timeout bounds it.  The second conjunct is
\* WF_vars(Progress), written out on Busy and Stepped.
FairShutdown ==
    /\ WF_vars(Exit)
    /\ ([]<>(~Busy) \/ []<><<Stepped>>_vars)

SpecShutdown == Init /\ [][NextShutdown]_vars /\ FairShutdown

(***************************************************************************)
(* Properties                                                              *)
(***************************************************************************)
\* the handler the request was routed to
Handler(r) == handler(req[r])

\* the request went through validation and reached the controller
Validated(r) ==
    /\ Handler(r) = "search"
    /\ pc[r] \in {"controller", "awaitLocal", "awaitGlobal", "done"}
    /\ errors[r] = <<>>

\* the local call of the request succeeded with at least one hit
LocalHit(r) == localOutcome[r].t = "ok" /\ Len(localOutcome[r].hits) >= 1

\* the local call of the request failed or succeeded with no hit
LocalMiss(r) ==
    \/ localOutcome[r].t = "error"
    \/ localOutcome[r].t = "ok" /\ Len(localOutcome[r].hits) = 0

\* C1: whenever the local call of a validated request succeeds with at least
\* one hit, searchWithFallback returns source "local" and an indexName that
\* is LOCAL_INDEX_PREFIX followed by the validated request's slug (which is
\* the slug as sent when that has no surrounding whitespace).
C1_LocalHitIsLocal ==
    \A r \in Reqs :
        (Validated(r) /\ LocalHit(r)) =>
            /\ outcome[r].t = "returned"
            /\ outcome[r].value.source = "local"
            /\ outcome[r].value.indexName = LOCAL_INDEX_PREFIX \o body[r].slug.s
            /\ (\A i \in 1..Len(raw[r].slug.s) : raw[r].slug.s[i] \notin Whitespace)
                   => outcome[r].value.indexName = LOCAL_INDEX_PREFIX \o raw[r].slug.s

C1_Witness ==
    \E r \in Reqs :
        /\ pc[r] = "done" /\ Validated(r) /\ LocalHit(r)
        /\ outcome[r].t = "returned"
        /\ outcome[r].value.indexName = <<"productos_colmado_", "a">>

\* C2: when the local call of a validated request fails or finds nothing and
\* the global call succeeds, the result has source "global" and the global
\* index name, whatever the global index found; and a result with source
\* "local" exists only where the local call succeeded with a hit.
C2_MissIsGlobal ==
    \A r \in Reqs :
        /\ (Validated(r) /\ LocalMiss(r) /\ globalOutcome[r].t = "ok") =>
               /\ outcome[r].t = "returned"
               /\ outcome[r].value.source = "global"
               /\ outcome[r].value.indexName = GLOBAL_INDEX
        /\ (outcome[r].t = "returned" /\ outcome[r].value.source = "local") =>
               LocalHit(r)

C2_Witness ==
    \E r \in Reqs :
        /\ pc[r] = "done" /\ localOutcome[r] = IndexNotFound
        /\ globalOutcome[r].t = "ok" /\ globalOutcome[r].hits = <<>>
        /\ outcome[r].value.source = "global"

\* C3: a failure of the local call never ends the request: the global index
\* is queried next, and what the caller gets (the result, or the error and
\* the response made from it) comes from the global call alone.
C3_LocalFailureAbsorbed ==
    \A r \in Reqs :
        localOutcome[r].t = "error" =>
            /\ Len(calls[r]) = 2
            /\ calls[r][2].index = GLOBAL_INDEX
            /\ pc[r] \in {"awaitGlobal", "done"}
            /\ pc[r] = "awaitGlobal" => (outcome[r] = None /\ res[r] = None)
            /\ pc[r] = "done" =>
                  /\ globalOutcome[r] # None
                  /\ globalOutcome[r].t = "ok" =>
                        /\ outcome[r].t = "returned"
                        /\ outcome[r].value.hits = globalOutcome[r].hits
                        /\ res[r].status = 200
                        /\ res[r].body.data = outcome[r].value
                  /\ globalOutcome[r].t = "error" =>
                        /\ outcome[r] = Thrown(globalOutcome[r])
                        /\ res[r].body.success = FALSE
                        /\ res[r].body.error.message
                               \in {GenericMessage, globalOutcome[r].message}

C3_Witness ==
    \E r \in Reqs :
        /\ pc[r] = "done" /\ localOutcome[r] = TimedOut
        /\ globalOutcome[r].t = "ok" /\ res[r].status = 200

CarriedStatus(e) ==
    IF "statusCode" \in DOMAIN e /\ e.statusCode # 0 THEN e.statusCode
    ELSE IF "status" \in DOMAIN e /\ e.status # 0 THEN e.status
    ELSE 500

\* C5 as stated: every failure of the global call is answered with status
\* 500 and a failure envelope.
C5_AlwaysStatus500 ==
    \A r \in Reqs :
        (pc[r] = "done" /\ globalOutcome[r].t = "error") =>
            /\ res[r].status = 500
            /\ res[r].body.success = FALSE

\* C5, amended: every failure of the global call reaches the error handler
\* and is answered with a failure envelope; the status is the one the error
\* carries (statusCode, else status), and 500 when it carries none.
C5_FailureEnvelope ==
    \A r \in Reqs :
        (pc[r] = "done" /\ globalOutcome[r].t = "error") =>
            /\ res[r] # None
            /\ res[r].body.success = FALSE
            /\ "error" \in DOMAIN res[r].body
            /\ res[r].status = CarriedStatus(globalOutcome[r])
            /\ ("statusCode" \notin DOMAIN globalOutcome[r]) => res[r].status = 500

C5_Witness ==
    \E r \in Reqs :
        /\ pc[r] = "done" /\ globalOutcome[r] = BadGateway
        /\ res[r].status = 502 /\ res[r].body.success = FALSE

\* C6: in production the body of an error-handler response has the generic
\* message and nothing else: neither the error's message nor its stack; a
\* response that shows either was made outside production.
C6_NoLeakInProduction ==
    \A r \in Reqs :
        (pc[r] = "done" /\ outcome[r].t = "thrown") =>
            LET e == res[r].body.error
                shown == "stack" \in DOMAIN e \/ e.message = outcome[r].error.message
            IN  /\ NODE_ENV = "production" =>
                      /\ DOMAIN res[r].body = {"success", "error"}
                      /\ DOMAIN e = {"message"}
                      /\ e.message = GenericMessage
                      /\ e.message # outcome[r].error.message
                /\ shown => NODE_ENV # "production"

C6_Witness ==
    \E r \in Reqs :
        /\ NODE_ENV = "production" /\ pc[r] = "done"
        /\ outcome[r].t = "thrown"
        /\ res[r].body.error = [message |-> GenericMessage]

\* C7: a request that violates a validation rule is answered 400 and never
\* reaches the fallback logic: no engine call is issued for it.
C7_InvalidNeverSearches ==
    \A r \in Reqs :
        errors[r] # <<>> =>
            /\ pc[r] = "done"
            /\ res[r] # None
            /\ res[r].status = 400
            /\ calls[r] = <<>>
            /\ localOutcome[r] = None /\ globalOutcome[r] = None
            /\ outcome[r] = None

C7_Witness ==
    \E r \in Reqs :
        /\ Len(errors[r]) = 1 /\ pc[r] = "done"
        /\ res[r].status = 400 /\ calls[r] = <<>>

(***************************************************************************)
(* Properties of validation, checked under SpecValidation                  *)
(***************************************************************************)
\* validation has run on the request
Checked(r) == pc[r] \in {"controller", "done"}

\* the request was answered 400
Rejected(r) == res[r] # None /\ res[r].status = 400

\* the entries of the 400 response that name the field
Entries(r, field) ==
    IF Rejected(r)
    THEN {i \in 1..Len(res[r].body.errors) : res[r].body.errors[i].field = field}
    ELSE {}

\* the string is empty or all whitespace
Blank(s) == \A i \in 1..Len(s) : s[i] \in Whitespace

\* C8 as stated: a slug with an uppercase letter, a space anywhere or any
\* character outside [a-z0-9_-] is rejected, and so is an empty or
\* whitespace-only query.
C8_RejectsAnySpace ==
    \A r \in Reqs :
        Checked(r) =>
            /\ (raw[r].slug.t = "string" /\
                \E i \in 1..Len(raw[r].slug.s) :
                    \/ raw[r].slug.s[i] \in Upper
                    \/ raw[r].slug.s[i] = " "
                    \/ raw[r].slug.s[i] \notin SlugClass) => Rejected(r)
            /\ (raw[r].query.t = "string" /\ Blank(raw[r].query.s)) => Rejected(r)

\* the position lies in the leading or in the trailing run of whitespace
Surrounding(s, i) ==
    \/ \A j \in 1..i : s[j] \in Whitespace
    \/ \A j \in i..Len(s) : s[j] \in Whitespace

\* C8, amended: a slug is rejected when, apart from its leading and trailing
\* whitespace, it has an uppercase letter, a space or any character outside
\* [a-z0-9_-], and when nothing is left of it; an empty or whitespace-only
\* query is rejected.
C8_RejectsBadSlugAndBlankQuery ==
    \A r \in Reqs :
        Checked(r) =>
            /\ (raw[r].slug.t = "string" /\
                \E i \in 1..Len(raw[r].slug.s) :
                    /\ raw[r].slug.s[i] \notin SlugClass
                    /\ ~Surrounding(raw[r].slug.s, i)) => Entries(r, "slug") # {}
            /\ (raw[r].slug.t = "string" /\ Blank(raw[r].slug.s)) =>
                   Entries(r, "slug") # {}
            /\ (raw[r].query.t = "string" /\ Blank(raw[r].query.s)) =>
                   Entries(r, "query") # {}

C8_Witness ==
    \E r \in Reqs :
        /\ Checked(r) /\ raw[r].slug = Str(<<"a", " ", "A">>)
        /\ Rejected(r) /\ Entries(r, "slug") # {}

\* the value is an integer: a number without a fraction, or a string that
\* spells one in decimal digits with an optional sign
SpellsInteger(v) ==
    \/ v.t = "number" /\ "n" \in DOMAIN v
    \/ v.t = "string" /\ IntPattern(v.s)

\* the integer such a value is
SpelledInteger(v) == IF v.t = "number" THEN v.n ELSE IntValue(v.s)

\* C9: limit is accepted exactly when it is absent or an integer in
\* [1,100], offset exactly when it is absent or an integer >= 0; so limit 1
\* and 100 pass, 0 and 101 do not, offset 0 passes and -1 does not.
C9_LimitOffsetRanges ==
    \A r \in Reqs :
        Checked(r) =>
            /\ Entries(r, "limit") = {} <=>
                   \/ raw[r].limit = Undefined
                   \/ /\ SpellsInteger(raw[r].limit)
                      /\ SpelledInteger(raw[r].limit) \in 1..100
            /\ Entries(r, "offset") = {} <=>
                   \/ raw[r].offset = Undefined
                   \/ /\ SpellsInteger(raw[r].offset)
                      /\ SpelledInteger(raw[r].offset) >= 0
            /\ raw[r].limit \in {Num(1), Num(100)} => Entries(r, "limit") = {}
            /\ raw[r].limit \in {Num(0), Num(101)} => Entries(r, "limit") # {}
            /\ raw[r].offset = Num(0) => Entries(r, "offset") = {}
            /\ raw[r].offset = Num(-1) => Entries(r, "offset") # {}

C9_Witness ==
    \E r \in Reqs :
        /\ Checked(r) /\ pc[r] = "controller"
        /\ raw[r].limit = Num(100) /\ raw[r].offset = Num(0)

\* C10: a 400 response has one entry for each violated field; a request
\* with a query and no slug gets exactly one entry, for slug.
C10_OneEntryPerField ==
    \A r \in Reqs :
        Checked(r) =>
            /\ \A f \in {"query", "slug", "limit", "offset"} :
                   Cardinality(Entries(r, f)) <= 1
            /\ raw[r] = Body(Str(<<"a", "r", "r", "o", "z">>), Undefined, Undefined, Undefined) =>
                   /\ Rejected(r)
                   /\ Len(res[r].body.errors) = 1
                   /\ res[r].body.errors[1].field = "slug"

\* the value breaks the rules of its field, told from the value alone
Invalid(field, v) ==
    CASE field = "query" -> v.t # "string" \/ Blank(v.s)
      [] field = "slug" ->
             \/ v.t # "string"
             \/ Blank(v.s)
             \/ \E i \in 1..Len(v.s) : v.s[i] \notin SlugClass /\ ~Surrounding(v.s, i)
      [] field = "limit" ->
             v # Undefined /\ ~(SpellsInteger(v) /\ SpelledInteger(v) \in 1..100)
      [] field = "offset" ->
             v # Undefined /\ ~(SpellsInteger(v) /\ SpelledInteger(v) >= 0)

\* the fields of the request whose values break their rules
InvalidFields(r) ==
    {f \in {"query", "slug", "limit", "offset"} : Invalid(f, raw[r][f])}

\* C11: the rules of query, slug, limit and offset are applied independently
\* and every violation is collected: a field has an entry in the 400
\* response exactly when its own value is invalid, whatever the other fields
\* are, so that a request with several invalid fields has an entry for each.
C11_EveryInvalidFieldReported ==
    \A r \in Reqs :
        Checked(r) =>
            /\ InvalidFields(r) # {} <=> Rejected(r)
            /\ \A f \in {"query", "slug", "limit", "offset"} :
                   f \in InvalidFields(r) <=> Entries(r, f) # {}

C11_Witness ==
    \E r \in Reqs :
        /\ Checked(r) /\ Rejected(r)
        /\ InvalidFields(r) = {"query", "slug", "limit", "offset"}
        /\ \A f \in {"query", "slug", "limit", "offset"} : Entries(r, f) # {}

\* the request has been answered
Answered(r) == pc[r] = "done" /\ res[r] # None

\* the response is the health envelope, with status 200 or 503
HealthEnvelope(response) ==
    /\ response.status \in {200, 503}
    /\ "service" \in DOMAIN response.body
    /\ response.body.service = "search-service"
    /\ response.body.status \in {"healthy", "unhealthy"}

\* C12: a GET request to /api/v1/health or to /health is handled by the
\* health handler and answered with the health envelope (200 or 503), never
\* with the 404 response.
C12_HealthAtBothPaths ==
    \A r \in Reqs :
        (req[r].method = "GET" /\ req[r].path \in {<<"api", "v1", "health">>, <<"health">>}) =>
            /\ Handler(r) = "health"
            /\ Answered(r) => HealthEnvelope(res[r])

ResultResponse(r) ==
    IF outcome[r].value.source = "local" THEN localOutcome[r] ELSE globalOutcome[r]

\* C14: in every result, total is the engine's estimatedTotalHits whenever
\* the response has the field, 0 included, and the number of returned hits
\* when the response has no such field; total is an integer >= 0.
C14_TotalFromEstimate ==
    \A r \in Reqs :
        (pc[r] = "done" /\ outcome[r] # None /\ outcome[r].t = "returned") =>
            LET response == ResultResponse(r)
                result == res[r].body.data
            IN  /\ result = outcome[r].value
                /\ "estimatedTotalHits" \in DOMAIN response =>
                       result.total = response.estimatedTotalHits
                /\ "estimatedTotalHits" \notin DOMAIN response =>
                       result.total = Len(response.hits)
                /\ result.total \in Nat

C14_Witness ==
    \E r \in Reqs :
        /\ pc[r] = "done" /\ outcome[r] # None /\ outcome[r].t = "returned"
        /\ "estimatedTotalHits" \in DOMAIN ResultResponse(r)
        /\ ResultResponse(r).estimatedTotalHits # Len(ResultResponse(r).hits)
        /\ res[r].body.data.total = ResultResponse(r).estimatedTotalHits

\* the number of search calls of the request that have settled
Settled(r) ==
    (IF localOutcome[r] # None THEN 1 ELSE 0) + (IF globalOutcome[r] # None THEN 1 ELSE 0)

\* C15: within one search request the engine calls are strictly sequential:
\* the local call is the first, the global call is issued only after the
\* local call has returned or failed, and at most one call of the request is
\* in flight at any time.
C15_CallsSequential ==
    \A r \in Reqs :
        Handler(r) = "search" =>
            /\ Len(calls[r]) - Settled(r) \in {0, 1}
            /\ Len(calls[r]) <= 2
            /\ \A i \in 1..Len(calls[r]) :
                   calls[r][i].index = GLOBAL_INDEX =>
                       /\ i = 2
                       /\ calls[r][1].index # GLOBAL_INDEX
                       /\ localOutcome[r] # None
            /\ pc[r] = "awaitLocal" => Len(calls[r]) = 1 /\ Settled(r) = 0
            /\ pc[r] = "awaitGlobal" => Len(calls[r]) = 2 /\ Settled(r) = 1

C15_Witness ==
    \E r \in Reqs :
        /\ pc[r] = "awaitGlobal" /\ localOutcome[r] # None
        /\ Len(calls[r]) = 2 /\ calls[r][2].index = GLOBAL_INDEX
        /\ globalOutcome[r] = None

\* both calls of the validated request succeeded and returned no hit
BothEmpty(r) ==
    /\ Validated(r) /\ pc[r] = "done"
    /\ localOutcome[r].t = "ok" /\ Len(localOutcome[r].hits) = 0
    /\ globalOutcome[r].t = "ok" /\ Len(globalOutcome[r].hits) = 0

\* C16 as stated: when both indexes return zero hits the response is 200
\* with success true, source "global", total 0 and no hits.
C16_BothEmptyTotalZero ==
    \A r \in Reqs :
        BothEmpty(r) =>
            /\ res[r].status = 200
            /\ res[r].body.success = TRUE
            /\ res[r].body.data.source = "global"
            /\ res[r].body.data.total = 0
            /\ res[r].body.data.hits = <<>>

\* C16, amended: when both indexes return zero hits the response is 200
\* with success true, source "global" and no hits; total is 0 when the
\* global response estimates no match or has no estimate, and is the
\* global response's estimate otherwise (a page past the last match).
C16_BothEmptyIsSuccess ==
    \A r \in Reqs :
        BothEmpty(r) =>
            /\ res[r].status = 200
            /\ res[r].body.success = TRUE
            /\ res[r].body.data.source = "global"
            /\ res[r].body.data.hits = <<>>
            /\ IF "estimatedTotalHits" \in DOMAIN globalOutcome[r]
               THEN res[r].body.data.total = globalOutcome[r].estimatedTotalHits
               ELSE res[r].body.data.total = 0

C16_Witness ==
    \E r \in Reqs :
        /\ BothEmpty(r)
        /\ localOutcome[r] = Found(<<>>, 0, 1) /\ globalOutcome[r] = Found(<<>>, 0, 1)
        /\ res[r].status = 200 /\ res[r].body.data.total = 0

\* the process serves nothing: no request has been accepted or answered
ServesNothing ==
    \A r \in Reqs : pc[r] = "idle" /\ res[r] = None /\ calls[r] = <<>>

\* C18: when MEILISEARCH_API_KEY is absent at startup the process fails
\* before the server listens: it is never listening and never serves a
\* request of any kind.
C18_NoKeyNeverServes ==
    apiKey = Undefined =>
        /\ server \in {"starting", "crashed"}
        /\ ServesNothing

C18_Witness == apiKey = Undefined /\ server = "crashed" /\ ServesNothing

\* the routes a handler is registered for; Express serves HEAD with the GET
\* handler
Registered ==
    {<<"GET", <<>>>>, <<"HEAD", <<>>>>,
     <<"POST", <<"api", "v1", "search">>>>,
     <<"GET", <<"api", "v1", "health">>>>, <<"HEAD", <<"api", "v1", "health">>>>,
     <<"POST", <<"health", "search">>>>,
     <<"GET", <<"health", "health">>>>, <<"HEAD", <<"health", "health">>>>}

\* the request was accepted and is for an undefined route
UndefinedRoute(r) == pc[r] # "idle" /\ <<req[r].method, req[r].path>> \notin Registered

\* the response is the 404 envelope with the path echoed
NotFoundEnvelope(response, path) ==
    /\ response.status = 404
    /\ response.body.success = FALSE
    /\ response.body.error.message = "Route not found"
    /\ response.body.error.path = path

\* C19 as stated: every request to an undefined route is answered 404 with
\* a failure envelope that echoes the path, and causes no engine call.
C19_UndefinedRouteIs404 ==
    \A r \in Reqs :
        UndefinedRoute(r) =>
            /\ pc[r] = "done" /\ res[r] # None
            /\ NotFoundEnvelope(res[r], req[r].path)
            /\ calls[r] = <<>>

\* C19, amended: a request to an undefined route causes no engine call and
\* is answered at once: 204 by the CORS middleware when its method is
\* OPTIONS, else 400 by the error handler when its JSON body does not
\* parse, else 404 with a failure envelope that echoes the path.
C19_UndefinedRouteAnswer ==
    \A r \in Reqs :
        UndefinedRoute(r) =>
            /\ pc[r] = "done" /\ res[r] # None
            /\ calls[r] = <<>>
            /\ IF req[r].method = "OPTIONS" THEN res[r] = PreflightResponse
               ELSE IF ~req[r].parsed
               THEN res[r].status = 400 /\ res[r].body.success = FALSE
               ELSE NotFoundEnvelope(res[r], req[r].path)

C19_Witness ==
    \E r \in Reqs :
        /\ UndefinedRoute(r) /\ req[r].method = "POST" /\ req[r].path = <<"nope">>
        /\ req[r].parsed
        /\ NotFoundEnvelope(res[r], <<"nope">>) /\ calls[r] = <<>>

\* every request the server accepted has been answered
AllComplete == \A r \in Reqs : pc[r] \in {"idle", "done"}

\* C20: after a termination signal the server accepts no new connection;
\* the process does not exit while an accepted request is incomplete, a
\* second signal included: it leaves the server closing; and once every
\* accepted request is complete the process eventually exits.
C20_GracefulShutdown ==
    /\ [][server # "listening" => \A r \in Reqs : pc[r] = "idle" => pc'[r] = "idle"]_vars
    /\ [][signals' # signals => server' = "closing"]_vars
    /\ [](server = "exited" => AllComplete /\ signals >= 1)
    /\ [][server' = "exited" => AllComplete]_vars
    /\ (server = "closing" /\ AllComplete) ~> (server = "exited")

C20_Witness ==
    /\ server = "closing" /\ signals = 2
    /\ \E r \in Reqs : pc[r] \in {"awaitLocal", "awaitGlobal", "awaitHealth"}

\* the request is over and searchWithFallback returned a result
HasResult(r) == pc[r] = "done" /\ outcome[r] # None /\ outcome[r].t = "returned"

\* C21: the hits and processingTimeMs of a result are those of the one
\* engine call that satisfied the request, the local call when source is
\* "local" and the global call when it is "global": the same records in the
\* same order, with nothing of the other index's response.
C21_HitsVerbatim ==
    \A r \in Reqs :
        HasResult(r) =>
            LET data == res[r].body.data
            IN  /\ data.source \in {"local", "global"}
                /\ data.source = "local" =>
                       /\ data.hits = localOutcome[r].hits
                       /\ data.processingTimeMs = localOutcome[r].processingTimeMs
                       /\ globalOutcome[r] = None
                /\ data.source = "global" =>
                       /\ data.hits = globalOutcome[r].hits
                       /\ data.processingTimeMs = globalOutcome[r].processingTimeMs

C21_Witness ==
    \E r \in Reqs :
        /\ HasResult(r) /\ res[r].body.data.source = "local"
        /\ localOutcome[r] = Found(<<"h2", "h1">>, 7, 12)
        /\ res[r].body.data.hits = <<"h2", "h1">>
        /\ res[r].body.data.processingTimeMs = 12

\* what the request itself asked for: the arguments its validated body gives
Own(r) == searchArgs(body[r])

\* C22: in every interleaving of concurrently handled requests, the calls
\* and the result of a search request come from its own parameters and from
\* the engine's answers to its own calls: source, indexName, hits, total,
\* query, limit and offset are never those of another request in flight.
C22_RequestsIsolated ==
    \A r \in Reqs :
        Validated(r) =>
            /\ \A i \in 1..Len(calls[r]) :
                   /\ calls[r][i].index \in {LOCAL_INDEX_PREFIX \o Own(r).slug, GLOBAL_INDEX}
                   /\ calls[r][i].query = Own(r).query
                   /\ calls[r][i].limit = Own(r).limit
                   /\ calls[r][i].offset = Own(r).offset
            /\ HasResult(r) =>
                   LET data == res[r].body.data
                       response == IF globalOutcome[r] = None
                                   THEN localOutcome[r] ELSE globalOutcome[r]
                   IN  /\ data.source = IF globalOutcome[r] = None THEN "local" ELSE "global"
                       /\ data.indexName = IF globalOutcome[r] = None
                                           THEN LOCAL_INDEX_PREFIX \o Own(r).slug
                                           ELSE GLOBAL_INDEX
                       /\ data.hits = response.hits
                       /\ data.total \in {Len(response.hits)} \cup
                              (IF "estimatedTotalHits" \in DOMAIN response
                               THEN {response.estimatedTotalHits} ELSE {})
                       /\ data.query = Own(r).query
                       /\ data.limit = Own(r).limit
                       /\ data.offset = Own(r).offset

C22_Witness ==
    \E r, q \in Reqs :
        /\ r # q /\ Validated(r) /\ Validated(q) /\ Own(r) # Own(q)
        /\ pc[q] = "awaitGlobal" /\ calls[q][2].query = Own(q).query
        /\ HasResult(r) /\ res[r].body.data.query = Own(r).query
        /\ res[r].body.data.indexName = LOCAL_INDEX_PREFIX \o Own(r).slug

\* the limit and the offset the request asks for: 20 and 0 when omitted
AskedLimit(r) == IF raw[r].limit = Undefined THEN 20 ELSE SpelledInteger(raw[r].limit)
AskedOffset(r) == IF raw[r].offset = Undefined THEN 0 ELSE SpelledInteger(raw[r].offset)

\* C23: every search call of a request carries the request's validated
\* query (the query sent, trimmed), its limit and its offset, 20 and 0 when
\* the request omits them; the global call carries the same three values as
\* the local call, and the result echoes them.
C23_CallsCarryParameters ==
    \A r \in Reqs :
        Validated(r) =>
            /\ \A i \in 1..Len(calls[r]) :
                   /\ calls[r][i].query = trim(raw[r].query.s)
                   /\ calls[r][i].limit = AskedLimit(r)
                   /\ calls[r][i].offset = AskedOffset(r)
            /\ Len(calls[r]) = 2 =>
                   /\ calls[r][2].query = calls[r][1].query
                   /\ calls[r][2].limit = calls[r][1].limit
                   /\ calls[r][2].offset = calls[r][1].offset
            /\ HasResult(r) =>
                   /\ res[r].body.data.query = trim(raw[r].query.s)
                   /\ res[r].body.data.limit = AskedLimit(r)
                   /\ res[r].body.data.offset = AskedOffset(r)

C23_Witness ==
    \E r \in Reqs :
        /\ Validated(r) /\ HasResult(r) /\ Len(calls[r]) = 2
        /\ raw[r].limit = Undefined /\ raw[r].offset = Undefined
        /\ calls[r][1].limit = 20 /\ calls[r][2].limit = 20
        /\ calls[r][1].offset = 0 /\ calls[r][2].offset = 0
        /\ res[r].body.data.limit = 20 /\ res[r].body.data.offset = 0

\* the indexes the request has queried, in order
Queried(r) == [i \in 1..Len(calls[r]) |-> calls[r][i].index]

\* C24: a valid search request queries the local index first; when it is
\* over it has made exactly one search call if the local call returned a
\* hit, the global index never being queried, and exactly two otherwise;
\* it never makes more than two calls nor queries an index twice.
C24_OneOrTwoCalls ==
    \A r \in Reqs :
        Validated(r) =>
            /\ Len(calls[r]) <= 2
            /\ \A i, j \in 1..Len(calls[r]) : i # j => Queried(r)[i] # Queried(r)[j]
            /\ calls[r] # <<>> =>
                   /\ Queried(r)[1] = LOCAL_INDEX_PREFIX \o body[r].slug.s
                   /\ Queried(r)[1] # GLOBAL_INDEX
            /\ pc[r] = "done" =>
                   IF localOutcome[r].t = "ok" /\ Len(localOutcome[r].hits) >= 1
                   THEN /\ Len(calls[r]) = 1
                        /\ globalOutcome[r] = None
                   ELSE /\ Len(calls[r]) = 2
                        /\ Queried(r)[2] = GLOBAL_INDEX
                        /\ globalOutcome[r] # None

C24_Witness ==
    \E r \in Reqs :
        /\ Validated(r) /\ pc[r] = "done"
        /\ localOutcome[r].t = "ok" /\ Len(localOutcome[r].hits) = 0
        /\ Len(calls[r]) = 2 /\ Queried(r)[2] = GLOBAL_INDEX

\* what the caller gets from a request whose global call settled that way,
\* told from the request and the global call alone
GlobalAnswer(r, o) ==
    IF o.t = "ok"
    THEN [status |-> 200,
          body |-> [success |-> TRUE,
                    data |-> [source |-> "global", indexName |-> GLOBAL_INDEX,
                              hits |-> o.hits,
                              total |-> total(o),
                              query |-> Own(r).query, limit |-> Own(r).limit,
                              offset |-> Own(r).offset,
                              processingTimeMs |-> o.processingTimeMs]]]
    ELSE errorHandler(o, NODE_ENV)

\* C25: a local error is indistinguishable from an empty local result: the
\* status and the body of the response of a request whose local call failed
\* or found nothing are those the request and the answer of its global call
\* determine, so two such requests that differ only in how the local call
\* missed get identical responses.
C25_LocalErrorMasked ==
    \A r \in Reqs :
        (Validated(r) /\ pc[r] = "done" /\ LocalMiss(r)) =>
            /\ globalOutcome[r] # None
            /\ res[r] = GlobalAnswer(r, globalOutcome[r])

C25_Witness ==
    \E r \in Reqs :
        /\ Validated(r) /\ pc[r] = "done"
        /\ localOutcome[r] = BadGateway
        /\ globalOutcome[r] = FoundNoEstimate(<<"h1">>, 2)
        /\ res[r] = GlobalAnswer(r, globalOutcome[r])
        /\ res[r].status = 200

\* the request is a health probe the server accepted
Probe(r) == Handler(r) = "health" /\ pc[r] # "idle"

\* C26: each health probe makes exactly one engine health call of its own
\* and no search call, and its response is computed from the outcome of
\* that call alone: never from the outcome of another probe.
C26_ProbeIsFresh ==
    \A r \in Reqs :
        Probe(r) =>
            /\ calls[r] = <<HealthCall>>
            /\ localOutcome[r] = None /\ globalOutcome[r] = None
            /\ pc[r] \in {"awaitHealth", "done"}
            /\ pc[r] = "awaitHealth" <=> healthOutcome[r] = None
            /\ pc[r] = "done" =>
                   /\ res[r] # None
                   /\ res[r].status = 200 <=> healthOutcome[r].t = "ok"
                   /\ res[r].body.status = "healthy" <=> healthOutcome[r].t = "ok"
                   /\ healthOutcome[r].t = "ok" =>
                          res[r].body.meilisearch = healthOutcome[r].value
                   /\ healthOutcome[r].t = "error" =>
                          res[r].body.error = healthOutcome[r].message
                   /\ healthOutcome[r].t = "empty" =>
                          res[r].body.error = NoStatusMessage

C26_Witness ==
    \E r, q \in Reqs :
        /\ Probe(r) /\ Probe(q) /\ pc[r] = "done" /\ pc[q] = "done"
        /\ healthOutcome[r] = TimedOut /\ res[r].status = 503
        /\ healthOutcome[q].t = "ok" /\ res[q].status = 200

\* the engine health call of the probe returned without throwing
Resolved(r) == Probe(r) /\ pc[r] = "done" /\ healthOutcome[r].t \in {"ok", "empty"}

\* C28 as stated: the health verdict depends on whether the engine health
\* call completes, not on what it reports: whenever the call returns any
\* value without throwing, the response is 200 with success true and status
\* "healthy".
C28_AnyValueIsHealthy ==
    \A r \in Reqs :
        Resolved(r) =>
            /\ res[r].status = 200
            /\ res[r].body.success = TRUE
            /\ res[r].body.status = "healthy"

\* C28, amended: the health verdict does not depend on the status the
\* engine reports: whenever the call returns an object, the response is 200
\* with success true and status "healthy" and the object is passed
\* unchanged in the meilisearch field; when the call returns no value, the
\* response is 503 with success false and status "unhealthy".
C28_AnyObjectIsHealthy ==
    \A r \in Reqs :
        Resolved(r) =>
            IF healthOutcome[r].t = "ok"
            THEN /\ res[r].status = 200
                 /\ res[r].body.success = TRUE
                 /\ res[r].body.status = "healthy"
                 /\ res[r].body.meilisearch = healthOutcome[r].value
            ELSE /\ res[r].status = 503
                 /\ res[r].body.success = FALSE
                 /\ res[r].body.status = "unhealthy"
                 /\ "meilisearch" \notin DOMAIN res[r].body

C28_Witness ==
    \E r \in Reqs :
        /\ Resolved(r)
        /\ healthOutcome[r].t = "ok" /\ healthOutcome[r].value.status # "available"
        /\ res[r].status = 200 /\ res[r].body.status = "healthy"
        /\ res[r].body.meilisearch.status = "maintenance"

\* the name is LOCAL_INDEX_PREFIX followed by one or more characters of
\* a-z, 0-9, _ and -
TenantIndexName(name) ==
    /\ Len(name) > Len(LOCAL_INDEX_PREFIX)
    /\ SubSeq(name, 1, Len(LOCAL_INDEX_PREFIX)) = LOCAL_INDEX_PREFIX
    /\ \A i \in (Len(LOCAL_INDEX_PREFIX) + 1)..Len(name) :
           name[i] \in Lower \cup Digit \cup {"_", "-"}

\* C27: every index name passed to the engine for a search request is the
\* global index name or LOCAL_INDEX_PREFIX followed by a non-empty string of
\* characters in [a-z0-9_-], whatever the request's body is.
C27_OnlyKnownIndexes ==
    \A r \in Reqs :
        \A i \in 1..Len(calls[r]) :
            "index" \in DOMAIN calls[r][i] =>
                \/ calls[r][i].index = GLOBAL_INDEX
                \/ TenantIndexName(calls[r][i].index)

C27_Witness ==
    \E r \in Reqs :
        /\ raw[r].slug = Str(<<" ", "a", "-">>)
        /\ Len(calls[r]) = 2
        /\ calls[r][1].index = <<"productos_colmado_", "a", "-">>
        /\ calls[r][2].index = GLOBAL_INDEX

\* C29: every accepted request receives exactly one response: a request is
\* over exactly when its response has been sent, a response once sent is
\* never followed by another for the same request, and, every engine call
\* settling, every accepted request is eventually answered.
C29_ExactlyOneResponse ==
    /\ [](\A r \in Reqs : res[r] # None <=> pc[r] = "done")
    /\ [][\A r \in Reqs : res[r] # None => res'[r] = res[r]]_vars
    /\ \A r \in Reqs : (pc[r] # "idle") ~> (pc[r] = "done" /\ res[r] # None)

C29_Witness ==
    \E r \in Reqs :
        /\ Validated(r) /\ pc[r] = "done" /\ res[r] # None
        /\ Len(calls[r]) = 2 /\ globalOutcome[r] = TimedOut
        /\ res[r].status = 500

\* the method and path of the request
Route(r) == <<req[r].method, req[r].path>>

\* the two routes of the router under each of its two mount points
ListedRoutes ==
    {<<"POST", <<"api", "v1", "search">>>>, <<"GET", <<"api", "v1", "health">>>>,
     <<"POST", <<"health", "search">>>>, <<"GET", <<"health", "health">>>>}

\* the same, with the HEAD requests Express serves with the GET handler
EngineRoutes ==
    ListedRoutes \cup {<<"HEAD", <<"api", "v1", "health">>>>,
                       <<"HEAD", <<"health", "health">>>>}

\* C30 as stated: POST /api/v1/search, GET /api/v1/health, POST
\* /health/search and GET /health/health are the only (method, path) pairs
\* that cause an engine call.
C30_OnlyListedRoutesCall ==
    \A r \in Reqs : calls[r] # <<>> => Route(r) \in ListedRoutes

\* C30, amended: POST /health/search goes through the same validation and
\* fallback logic as POST /api/v1/search, GET /health/health is answered by
\* the health handler after one engine health call, and an engine call is
\* caused only by these, the two /api/v1 routes, and HEAD requests to the
\* two health paths.
C30_RouterMountedTwice ==
    /\ \A b \in Bodies :
           handler(Request("POST", <<"health", "search">>, b))
               = handler(Request("POST", <<"api", "v1", "search">>, b))
    /\ \A r \in Reqs :
           pc[r] # "idle" =>
               /\ calls[r] # <<>> => Route(r) \in EngineRoutes
               /\ (Route(r) = <<"POST", <<"health", "search">>>> /\ req[r].parsed) =>
                      /\ Handler(r) = "search"
                      /\ pc[r] # "received" =>
                             errors[r] = searchValidationRules(raw[r]).errors
                      /\ errors[r] # <<>> => res[r].status = 400 /\ calls[r] = <<>>
                      /\ (Validated(r) /\ pc[r] # "controller") =>
                             /\ calls[r] # <<>>
                             /\ Queried(r)[1] = LOCAL_INDEX_PREFIX \o body[r].slug.s
                             /\ calls[r][1].query = trim(raw[r].query.s)
                      /\ (Validated(r) /\ pc[r] = "done" /\ LocalMiss(r)) =>
                             /\ Len(calls[r]) = 2
                             /\ Queried(r)[2] = GLOBAL_INDEX
               /\ Route(r) = <<"GET", <<"health", "health">>>> =>
                      /\ Handler(r) = "health"
                      /\ calls[r] = <<HealthCall>>
                      /\ Answered(r) => HealthEnvelope(res[r])

C30_Witness ==
    \E r \in Reqs :
        /\ Route(r) = <<"POST", <<"health", "search">>>>
        /\ Validated(r) /\ pc[r] = "done"
        /\ Len(calls[r]) = 2
        /\ calls[r][1].query = <<"q">>
        /\ Queried(r) = <<LOCAL_INDEX_PREFIX \o <<"a">>, GLOBAL_INDEX>>
        /\ res[r] # None /\ res[r].status = 200

====
